---- MODULE Spec2Model ----
(***************************************************************************)
(* Verification model of Open-AutoGLM's agent control loop                 *)
(* (phone_agent/agent.py: PhoneAgent) and of the message helpers it uses   *)
(* (phone_agent/model/client.py: MessageBuilder).                          *)
(*                                                                         *)
(* A Python str is a sequence of one-character strings; a program literal  *)
(* that is never taken apart is kept as one piece.  A Python dict is a     *)
(* function from its keys to its values.                                   *)
(***************************************************************************)
EXTENDS Integers, Sequences, FiniteSets, TLC

\* ---------------------------------------------------------------- bounds

\* Largest step ceiling (AgentConfig.max_steps) the model configures.
MaxCeiling == 2
\* Cap on the step counter: step() may be called without end.
MaxStepCount == 2
\* The tracker specification feeds at most this many actions between resets.
MaxFeeds == 3
\* The tracker specification configures a retry threshold of at most this.
MaxThreshold == 3
\* The parser specification encloses texts of at most this many characters.
MaxLen == 2
\* The parser specification joins at most this many segments to a marker text.
MaxSegments == 3
\* The request specification delivers a text in this many fragments.
MaxFragments == 3
\* The normalization specification normalizes texts of at most this many
\* characters.
MaxTagText == 4
MaxTextLen == 52
MaxExchanges == 2
MaxSends == 2
MaxBuilds == 2

\* ------------------------------------------------------ values and strings

\* Python's None, in a position that holds a str.
None == <<"<None>">>
\* Python's None, in a position that holds a dict.
NoAction == [null |-> <<>>]
\* Python truthiness of an Optional[str].
Truthy(s) == s # None /\ s # <<>>
\* `a or b` on Optional[str] values.
Or(a, b) == IF Truthy(a) THEN a ELSE b
\* dict.get(key) and dict.get(key, default).
Get(d, k) == IF k \in DOMAIN d THEN d[k] ELSE None
GetDefault(d, k, dflt) == IF k \in DOMAIN d THEN d[k] ELSE dflt

S_do == <<"d", "o">>
S_finish == <<"f", "i", "n", "i", "s", "h">>
S_Tap == <<"T", "a", "p">>
S_DoubleTap == <<"D", "o", "u", "b", "l", "e", " ", "T", "a", "p">>
S_LongPress == <<"L", "o", "n", "g", " ", "P", "r", "e", "s", "s">>
S_Launch == <<"L", "a", "u", "n", "c", "h">>
S_Swipe == <<"S", "w", "i", "p", "e">>
S_Type == <<"T", "y", "p", "e">>
S_Type_Name == <<"T", "y", "p", "e", "_", "N", "a", "m", "e">>
S_Wait == <<"W", "a", "i", "t">>
S_Back == <<"B", "a", "c", "k">>
S_Home == <<"H", "o", "m", "e">>
S_Take_over == <<"T", "a", "k", "e", "_", "o", "v", "e", "r">>
S_navigation == <<"n", "a", "v", "i", "g", "a", "t", "i", "o", "n">>
S_MaxStepsReached ==
  <<"M", "a", "x", " ", "s", "t", "e", "p", "s", " ", "r", "e", "a", "c", "h", "e", "d">>
S_TaskCompleted ==
  <<"T", "a", "s", "k", " ", "c", "o", "m", "p", "l", "e", "t", "e", "d">>
S_ModelError == <<"M", "o", "d", "e", "l", " ", "e", "r", "r", "o", "r", ":", " ">>
S_ellipsis == <<".", ".", ".">>

\* str(int) for the naturals the model formats.
RECURSIVE IntToStr(_)
IntToStr(n) ==
  LET d == <<"0", "1", "2", "3", "4", "5", "6", "7", "8", "9">>
  IN  IF n < 10 THEN <<d[n + 1]>> ELSE IntToStr(n \div 10) \o <<d[(n % 10) + 1]>>

\* -------------------------------------------------- the action constructor

\* phone_agent.actions.handler.finish(message=...): the fail-open fallback.
finish(message) == [_metadata |-> S_finish, message |-> message]

\* ------------------------------------------------------- retry/dedup tracker

\* PhoneAgent._truncate_text
TruncMaxLength == 50
\* Line 300 cutting at max_length, the three dots not counted.
_truncate_text_DotsExtra(text) ==
  IF Len(text) <= TruncMaxLength
  THEN text
  ELSE SubSeq(text, 1, TruncMaxLength) \o S_ellipsis

_truncate_text(text) ==
  IF Len(text) <= TruncMaxLength
  THEN text
  ELSE SubSeq(text, 1, TruncMaxLength - 3) \o S_ellipsis

\* isinstance(v, list) and len(v) >= 2, for the value under key k; the values the
\* model puts under a coordinate key are lists of integers.
IsPair(action, k) == k \in DOMAIN action /\ Len(action[k]) >= 2

FormatPoint(p) == <<"(">> \o IntToStr(p[1]) \o <<",", " ">> \o IntToStr(p[2]) \o <<")">>

\* PhoneAgent._format_action_target
_format_action_target(action) ==
  LET metadata == Get(action, "_metadata")
      action_name == Get(action, "action")
  IN  IF metadata = S_finish THEN GetDefault(action, "message", <<>>)
      ELSE IF metadata # S_do THEN <<>>
      ELSE IF action_name = S_Launch THEN GetDefault(action, "app", <<>>)
      ELSE IF action_name \in {S_Tap, S_DoubleTap, S_LongPress}
        THEN IF IsPair(action, "element")
             THEN FormatPoint(action["element"]) ELSE <<>>
      ELSE IF action_name = S_Swipe
        THEN IF IsPair(action, "start") /\ IsPair(action, "end")
             THEN FormatPoint(action["start"]) \o <<" ", "-", ">", " ">>
                    \o FormatPoint(action["end"])
             ELSE <<>>
      ELSE IF action_name \in {S_Type, S_Type_Name}
        THEN <<"t", "e", "x", "t", "=", "'">>
               \o _truncate_text(GetDefault(action, "text", <<>>)) \o <<"'">>
      ELSE IF action_name = S_Wait THEN GetDefault(action, "duration", <<>>)
      ELSE IF action_name \in {S_Back, S_Home} THEN S_navigation
      ELSE IF action_name = S_Take_over THEN GetDefault(action, "message", <<>>)
      ELSE <<>>

\* The retry state: (_last_action_type, _last_action_target, _retry_count).
RetryState(t, g, c) == [last_action_type |-> t, last_action_target |-> g, retry_count |-> c]

\* PhoneAgent._reset_action_tracking
_reset_action_tracking == RetryState(None, None, 0)

\* The action type the tracker classifies: line 219.
ActionType(action) ==
  IF Get(action, "_metadata") = S_do THEN Get(action, "action") ELSE Get(action, "_metadata")

\* Line 227 without its test of the type.
FreshCount_AlwaysOne(action_type) == 1

\* The count a mismatching signature leaves: line 227.
FreshCount(action_type) == IF Truthy(action_type) THEN 1 ELSE 0

\* Line 222 without its comparison of the targets.
_update_last_action_state_IgnoresTarget(rs, action) ==
  LET action_type == ActionType(action)
      action_target == _format_action_target(action)
  IN  IF /\ Truthy(action_type)
         /\ action_type = rs.last_action_type
      THEN RetryState(rs.last_action_type, rs.last_action_target, rs.retry_count + 1)
      ELSE RetryState(action_type, action_target, FreshCount(action_type))

\* PhoneAgent._update_last_action_state
_update_last_action_state(rs, action) ==
  LET action_type == ActionType(action)
      action_target == _format_action_target(action)
  IN  IF /\ Truthy(action_type)
         /\ action_type = rs.last_action_type
         /\ action_target = rs.last_action_target
      THEN RetryState(rs.last_action_type, rs.last_action_target, rs.retry_count + 1)
      ELSE RetryState(action_type, action_target, FreshCount(action_type))

\* AgentConfig.retry_reminder_threshold: its default, and the configured value.
retry_reminder_threshold == 3
VARIABLE threshold

\* The two literals of the retry note (Chinese text in the source), one piece each.
S_NoteHead == <<"[tried] ">>
S_NoteMid == <<" [total] ">>
S_NoteTail == <<" [times; state unchanged]">>
S_NoteEscalation == <<"[consider another strategy or finish for hand-off]">>

\* Line 285 with > for >=.
Escalates_Above(count) == threshold # 0 /\ count > threshold

\* The test of line 285: a threshold of 0 is falsy.
Escalates(count) == threshold # 0 /\ count >= threshold

\* PhoneAgent._build_retry_note; None when there is no note.
_build_retry_note(rs) ==
  IF ~Truthy(rs.last_action_type) \/ rs.retry_count <= 0
  THEN None
  ELSE LET target == IF Truthy(rs.last_action_target)
                     THEN <<" ">> \o rs.last_action_target ELSE <<>>
           note == S_NoteHead \o rs.last_action_type \o target \o S_NoteMid
                     \o IntToStr(rs.retry_count) \o S_NoteTail
       IN  IF Escalates(rs.retry_count)
           THEN note \o S_NoteEscalation
           ELSE note

\* Line 293 with the note after the base text.
_compose_user_text_NoteLast(rs, base_text) ==
  LET retry_note == _build_retry_note(rs)
  IN  IF Truthy(retry_note) THEN base_text \o <<"\n", "\n">> \o retry_note ELSE base_text

\* PhoneAgent._compose_user_text
_compose_user_text(rs, base_text) ==
  LET retry_note == _build_retry_note(rs)
  IN  IF Truthy(retry_note) THEN retry_note \o <<"\n", "\n">> \o base_text ELSE base_text

\* ------------------------------------------------- ModelClient: the parser

\* The characters \s matches and str.strip() removes, as far as texts here
\* carry them.
Whitespace == {" ", "\n", "\t"}

\* str.find(a, start): the least index (from 0) at or after start where a
\* occurs, -1 when there is none.
Find(text, a, start) ==
  LET at == { i \in start..(Len(text) - Len(a)) : SubSeq(text, i + 1, i + Len(a)) = a }
  IN  IF at = {} THEN -1 ELSE CHOOSE i \in at : \A j \in at : i <= j

\* a in text
Contains(text, a) == Find(text, a, 0) # -1

\* text[i:j] and text[i:]
Slice(text, i, j) == SubSeq(text, i + 1, j)
SliceFrom(text, i) == SubSeq(text, i + 1, Len(text))

\* text.split(marker, 1) of a text that contains the marker
SplitOnce(text, marker) ==
  LET i == Find(text, marker, 0)
  IN  <<Slice(text, 0, i), SliceFrom(text, i + Len(marker))>>

\* str.strip()
Strip(text) ==
  LET solid == { i \in 1..Len(text) : text[i] \notin Whitespace }
  IN  IF solid = {} THEN <<>>
      ELSE SubSeq(text, CHOOSE i \in solid : \A j \in solid : i <= j,
                        CHOOSE i \in solid : \A j \in solid : i >= j)

\* Line 17 removing the first whitespace character only.
RECURSIVE RemoveWhitespace_First(_)
RemoveWhitespace_First(text) ==
  IF text = <<>> THEN <<>>
  ELSE IF text[1] \in Whitespace THEN Tail(text)
  ELSE <<text[1]>> \o RemoveWhitespace_First(Tail(text))

\* re.sub(r"\s+", "", text)
RECURSIVE RemoveWhitespace(_)
RemoveWhitespace(text) ==
  IF text = <<>> THEN <<>>
  ELSE IF text[1] \in Whitespace THEN RemoveWhitespace(Tail(text))
  ELSE <<text[1]>> \o RemoveWhitespace(Tail(text))

\* re.sub(r"\s+", " ", text)
RECURSIVE CollapseWhitespace(_)
CollapseWhitespace(text) ==
  IF text = <<>> THEN <<>>
  ELSE IF text[1] \in Whitespace
       THEN IF Len(text) >= 2 /\ text[2] \in Whitespace
            THEN CollapseWhitespace(Tail(text))
            ELSE <<" ">> \o CollapseWhitespace(Tail(text))
  ELSE <<text[1]>> \o CollapseWhitespace(Tail(text))

\* Where the match of _TAG_RE (<[^>]+>) that starts at the head of the text
\* ends, 0 when there is none: a "<", at least one character that is not ">",
\* and the first ">" after them.
TagEnd(text) ==
  IF Len(text) >= 3 /\ text[1] = "<" /\ text[2] # ">" /\ Find(text, <<">">>, 2) # -1
  THEN Find(text, <<">">>, 2) + 1
  ELSE 0

\* Line 216 left out: the text is matched as it came.
_normalize_xmlish_tags_Off(text) == text

\* _normalize_xmlish_tags: the matches of _TAG_RE from left to right, without
\* overlap, each with its whitespace removed.
RECURSIVE _normalize_xmlish_tags(_)
_normalize_xmlish_tags(text) ==
  IF text = <<>> THEN <<>>
  ELSE IF TagEnd(text) # 0
       THEN RemoveWhitespace(Slice(text, 0, TagEnd(text)))
              \o _normalize_xmlish_tags(SliceFrom(text, TagEnd(text)))
  ELSE <<text[1]>> \o _normalize_xmlish_tags(Tail(text))

\* _extract_between
_extract_between(text, a, b) ==
  LET i == Find(text, a, 0)
  IN  IF i = -1 THEN <<>>
      ELSE LET j == Find(text, b, i + Len(a))
           IN  IF j = -1 THEN SliceFrom(text, i + Len(a))
               ELSE Slice(text, i + Len(a), j)

S_think_open == <<"<", "t", "h", "i", "n", "k", "_", "t", "e", "x", "t", ">">>
S_think_close == <<"<", "/", "t", "h", "i", "n", "k", "_", "t", "e", "x", "t", ">">>
S_tool_open == <<"<", "t", "o", "o", "l", "_", "c", "a", "l", "l", ">">>
S_tool_close == <<"<", "/", "t", "o", "o", "l", "_", "c", "a", "l", "l", ">">>
S_finish_marker == <<"f", "i", "n", "i", "s", "h", "(", "m", "e", "s", "s", "a", "g", "e", "=">>
S_do_marker == <<"d", "o", "(", "a", "c", "t", "i", "o", "n", "=">>

ModelResponse(thinking, action) == [thinking |-> thinking, action |-> action]

\* Lines 232-236 and 238-242: the split at one marker.
SplitAt(content, marker) ==
  ModelResponse(Strip(SplitOnce(content, marker)[1]), marker \o SplitOnce(content, marker)[2])

\* Line 245 with the text for the thinking.
Fallback_AsThinking(text) == ModelResponse(Strip(text), <<>>)

\* Line 245
Fallback(text) == ModelResponse(<<>>, Strip(text))

\* _parse_response with lines 225-227 left out: an empty enclosed action is
\* returned as it is.
_parse_response_KeepsEmpty(text) ==
  LET c == _normalize_xmlish_tags(text)
  IN  IF Contains(c, S_tool_open)
      THEN ModelResponse(Strip(CollapseWhitespace(
                                 Strip(_extract_between(c, S_think_open, S_think_close)))),
                         Strip(_extract_between(c, S_tool_open, S_tool_close)))
      ELSE IF Contains(text, S_finish_marker) THEN SplitAt(text, S_finish_marker)
      ELSE IF Contains(text, S_do_marker) THEN SplitAt(text, S_do_marker)
      ELSE Fallback(text)

\* ModelClient._parse_response
_parse_response(text) ==
  LET c == _normalize_xmlish_tags(text)
  IN  IF Contains(c, S_tool_open)
      THEN LET thinking == Strip(CollapseWhitespace(
                                   Strip(_extract_between(c, S_think_open, S_think_close))))
               action == Strip(_extract_between(c, S_tool_open, S_tool_close))
           IN  IF action = <<>>
               THEN ModelResponse(thinking,
                      Strip(SliceFrom(c, Find(c, S_tool_open, 0) + Len(S_tool_open))))
               ELSE ModelResponse(thinking, action)
      ELSE IF Contains(text, S_finish_marker) THEN SplitAt(text, S_finish_marker)
      ELSE IF Contains(text, S_do_marker) THEN SplitAt(text, S_do_marker)
      ELSE Fallback(text)

\* ------------------------------------------------ ModelClient: the request

\* The loop of _clean_stream_content, lines 75-93: the characters kept and the
\* tag state left.
RECURSIVE CleanScan(_, _, _, _)
CleanScan(text, kept, inside, held) ==
  IF text = <<>> THEN [clean_chars |-> kept, in_tag |-> inside, tag_buffer |-> held]
  ELSE IF Head(text) = "<" /\ ~inside THEN CleanScan(Tail(text), kept, TRUE, <<"<">>)
  ELSE IF Head(text) = ">" /\ inside THEN CleanScan(Tail(text), kept, FALSE, <<>>)
  ELSE IF inside THEN CleanScan(Tail(text), kept, TRUE, held \o <<Head(text)>>)
  ELSE CleanScan(Tail(text), kept \o <<Head(text)>>, inside, held)

\* _clean_stream_content with the tag state of lines 39-40 taken anew at every
\* call instead of kept from the call before.
_clean_stream_content_Stateless(text, inside, held) ==
  LET scan == CleanScan(text, <<>>, FALSE, <<>>)
  IN  [clean_text |-> Strip(CollapseWhitespace(scan.clean_chars)),
       in_tag |-> scan.in_tag, tag_buffer |-> scan.tag_buffer]

\* ModelClient._clean_stream_content from the tag state given: the clean text
\* and the tag state left.
_clean_stream_content(text, inside, held) ==
  LET scan == CleanScan(text, <<>>, inside, held)
  IN  [clean_text |-> Strip(CollapseWhitespace(scan.clean_chars)),
       in_tag |-> scan.in_tag, tag_buffer |-> scan.tag_buffer]

\* Line 127
action_markers == <<S_finish_marker, S_do_marker>>

\* The first marker of action_markers that the text contains: lines 149-150.
MarkerFound(text) ==
  IF Contains(text, action_markers[1]) THEN action_markers[1]
  ELSE IF Contains(text, action_markers[2]) THEN action_markers[2]
  ELSE <<>>

EndsWith(text, suffix) ==
  Len(suffix) <= Len(text) /\ SubSeq(text, Len(text) - Len(suffix) + 1, Len(text)) = suffix

\* Lines 169-176: the text ends with a proper, non-empty prefix of a marker.
IsPotentialMarker(text) ==
  \E m \in 1..Len(action_markers) :
    \E i \in 1..(Len(action_markers[m]) - 1) :
      EndsWith(text, SubSeq(action_markers[m], 1, i))

\* What print(clean, end="") adds to the output: nothing for an empty text.
Printed(out, clean) == IF clean = <<>> THEN out ELSE Append(out, clean)

\* ----------------------------------------------------------- MessageBuilder

\* AgentConfig.system_prompt, one piece.
system_prompt == <<"[system prompt]">>

\* MessageBuilder.create_system_message
create_system_message(content) == [role |-> "system", image |-> FALSE, text |-> content]

\* MessageBuilder.create_user_message: the image item is added only for
\* non-empty image data.
create_user_message(text, image_base64) ==
  [role |-> "user", image |-> Truthy(image_base64), text |-> text]

\* MessageBuilder.create_assistant_message
create_assistant_message(content) == [role |-> "assistant", image |-> FALSE, text |-> content]

\* MessageBuilder.remove_images_from_message: keeps the text items only.  A
\* system or assistant message has a str content and is returned as it is.
remove_images_from_message(message) == [message EXCEPT !.image = FALSE]

\* MessageBuilder.build_screen_info: json.dumps({"current_app": current_app}).
build_screen_info(current_app) ==
  <<"{", "\"", "current_app", "\"", ":", " ", "\"">> \o current_app \o <<"\"", "}">>

\* The assistant turn's text: line 184.
AssistantText(response) ==
  <<"<think>">> \o response.thinking \o <<"</think>", "<answer>">>
    \o response.action \o <<"</answer>">>

\* ------------------------------------------------------------ collaborators

\* Task instructions a caller passes to run().
Tasks == {<<"t">>}
\* What a caller passes to step(): nothing, or a task.
StepTasks == {None} \cup Tasks
\* get_current_app's answers.
Apps == {<<"a", "p", "p">>}
\* get_screenshot's base64 data.
ImageData == {<<"i", "m", "g">>}
\* str(e) of the exceptions a collaborator raises.
ExcTexts == {<<"e", "r", "r">>}
\* ModelClient.request's answers: (thinking, action).
Responses == { [thinking |-> <<"t", "h">>, action |-> <<"d", "o", "(", ")">>] }
\* parse_action's answers.
A_Tap == [_metadata |-> S_do, action |-> S_Tap, element |-> <<100, 200>>]
A_Finish == [_metadata |-> S_finish, message |-> <<"d", "o", "n", "e">>]
A_NoName == [_metadata |-> S_do]
DecodedActions == {A_Tap, A_Finish, A_NoName}
\* ActionHandler.execute's answers.
ExecResult(success, should_finish, message) ==
  [success |-> success, should_finish |-> should_finish, message |-> message]
ExecResults ==
  { ExecResult(TRUE, FALSE, None), ExecResult(FALSE, FALSE, <<"o", "k">>),
    ExecResult(TRUE, TRUE, <<>>), ExecResult(TRUE, TRUE, <<"o", "k">>) }

\* ------------------------------------------------------------------- state

VARIABLES
  max_steps,            \* AgentConfig.max_steps
  context,              \* PhoneAgent._context
  step_count,           \* PhoneAgent._step_count
  last_action_type,     \* PhoneAgent._last_action_type
  last_action_target,   \* PhoneAgent._last_action_target
  retry_count,          \* PhoneAgent._retry_count
  pc,                   \* position of run(): "idle", "first", "loop"
  run_task,             \* run()'s argument while it runs
  op,                   \* the operation that made the last transition
  outcome,              \* how the last step ended: "none", "returned", "raised"
  result,               \* the StepResult the last step returned
  run_return,           \* what the last run() returned
  run_steps,            \* steps the current run() has executed
  calls,                \* collaborator calls of the last operation, in order
  dispatched,           \* the actions the last step handed to the executor
  exec_result,          \* the executor's answer the last step used
  ctx_at_dispatch,      \* the context at the last step's first executor call
  model_response,       \* the ModelResponse the last step received
  decode,               \* parse_action in the last step: "none", "ok", "ValueError", "error"
  classified,           \* the last action fed to the tracker since reset
  history,              \* the actions fed to the tracker since reset, in order
  content,              \* the text handed to ModelClient._parse_response
  form,                 \* how that text was built
  parsed,               \* what _parse_response returned for it
  normalizing,          \* a text and what _normalize_xmlish_tags made of it, pass by pass
  fragments,            \* the contents of the chunks the stream delivers to request()
  pos,                  \* how many of them request() has consumed
  rq,                   \* request(): "idle", "streaming", "returned"
  raw_content,          \* request()'s raw_content
  buffer,               \* request()'s buffer
  in_action_phase,      \* request()'s in_action_phase
  in_tag,               \* ModelClient._in_tag
  tag_buffer,           \* ModelClient._tag_buffer
  emitted,              \* what request() has printed as the thinking, in order
  opens,                \* calls of chat.completions.create made so far
  exchanges,            \* calls of request() made so far
  prev_in_tag,          \* _in_tag as the call of request() before the last left it
  req_result,           \* the ModelResponse request() returned
  _busy,                \* ChatGUI._busy
  _closing,             \* ChatGUI._closing
  uiq,                  \* ChatGUI.uiq: the values of its ("busy", value) items, in order
  dialog,               \* the settings dialog is open (it holds the input grab)
  workers,              \* threads started on run_agent that have not left it
  sends,                \* calls of send_message that started a thread
  builds                \* calls of _build_agent made by _reload_agent

vars == <<max_steps, threshold, context, step_count, last_action_type, last_action_target,
          retry_count, pc, run_task, op, outcome, result, run_return, run_steps,
          calls, dispatched, exec_result, ctx_at_dispatch, model_response, decode,
          classified, history, content, form, parsed, normalizing, fragments, pos, rq,
          raw_content,
          buffer, in_action_phase, in_tag, tag_buffer, emitted, opens, exchanges,
          prev_in_tag, req_result, _busy, _closing, uiq, dialog, workers, sends, builds>>

agent == <<context, step_count, last_action_type, last_action_target, retry_count>>

\* The model client's side: no operation of PhoneAgent itself assigns it.
stream == <<fragments, pos, rq, raw_content, buffer, in_action_phase, in_tag, tag_buffer,
            emitted, opens, exchanges, prev_in_tag, req_result>>
parser == <<content, form, parsed>>
client == <<parser, normalizing, stream>>

\* What no operation of a constructed agent assigns.
outside == <<max_steps, threshold, client,
            _busy, _closing, uiq, dialog, workers, sends, builds>>

\* The agent's side: no operation of ModelClient assigns it.
agent_side == <<max_steps, threshold, context, step_count, last_action_type,
                last_action_target, retry_count, pc, run_task, op, outcome, result,
                run_return, run_steps, calls, dispatched, exec_result, ctx_at_dispatch,
                model_response, decode, classified, history,
                _busy, _closing, uiq, dialog, workers, sends, builds>>

\* What a step observes and the position of run().
observed == <<pc, run_task, op, outcome, result, run_return, run_steps, calls, dispatched,
              exec_result, ctx_at_dispatch, model_response, decode>>

NoResult == [none |-> TRUE]
NoExec == [none |-> TRUE]
NoResponse == [none |-> TRUE]
Raised == <<"<raised>">>

StepResult(success, finished, action, thinking, message) ==
  [success |-> success, finished |-> finished, action |-> action,
   thinking |-> thinking, message |-> message]

retry_state == RetryState(last_action_type, last_action_target, retry_count)

SetRetry(new) ==
  /\ last_action_type' = new.last_action_type
  /\ last_action_target' = new.last_action_target
  /\ retry_count' = new.retry_count

NoForm == [kind |-> "none"]

\* ModelClient.__init__, and no request() entered.
StreamIdle ==
  /\ rq = "idle"
  /\ pos = 0
  /\ raw_content = <<>>
  /\ buffer = <<>>
  /\ in_action_phase = FALSE
  /\ in_tag = FALSE
  /\ tag_buffer = <<>>
  /\ emitted = <<>>
  /\ opens = 0
  /\ exchanges = 0
  /\ prev_in_tag = FALSE
  /\ req_result = NoResponse

\* No text has been handed to the parser, and no stream to request().
ClientIdle ==
  /\ content = None
  /\ form = NoForm
  /\ parsed = NoResponse
  /\ normalizing = <<>>
  /\ fragments = <<>>
  /\ StreamIdle

\* PhoneAgent.__init__, but for the configuration; and ChatGUI.__init__ around
\* it: nothing sent, nothing queued, no dialog, no thread.
AgentInit ==
  /\ _busy = FALSE
  /\ _closing = FALSE
  /\ uiq = <<>>
  /\ dialog = FALSE
  /\ workers = 0
  /\ sends = 0
  /\ builds = 0
  /\ context = <<>>
  /\ step_count = 0
  /\ last_action_type = None
  /\ last_action_target = None
  /\ retry_count = 0
  /\ pc = "idle"
  /\ run_task = None
  /\ op = "init"
  /\ outcome = "none"
  /\ result = NoResult
  /\ run_return = None
  /\ run_steps = 0
  /\ calls = <<>>
  /\ dispatched = <<>>
  /\ exec_result = NoExec
  /\ ctx_at_dispatch = <<>>
  /\ model_response = NoResponse
  /\ decode = "none"
  /\ classified = NoAction
  /\ history = <<>>

\* An agent with any step ceiling and the default retry threshold.
Init ==
  /\ max_steps \in 0..MaxCeiling
  /\ threshold = retry_reminder_threshold
  /\ AgentInit
  /\ ClientIdle

\* The step has not reached (or has not got an answer from) the model.
NoExchange ==
  /\ model_response' = NoResponse
  /\ decode' = "none"

\* The observation variables of an operation that executes no step.
NoStep ==
  /\ NoExchange
  /\ outcome' = "none"
  /\ result' = NoResult
  /\ calls' = <<>>
  /\ dispatched' = <<>>
  /\ exec_result' = NoExec
  /\ ctx_at_dispatch' = <<>>

\* Line 102 left out.
reset_KeepsTracking ==
  /\ pc = "idle"
  /\ context' = <<>>
  /\ step_count' = 0
  /\ UNCHANGED <<last_action_type, last_action_target, retry_count>>
  /\ classified' = NoAction
  /\ history' = <<>>
  /\ op' = "reset"
  /\ NoStep
  /\ UNCHANGED <<outside, pc, run_task, run_return, run_steps>>

\* PhoneAgent.reset
reset ==
  /\ pc = "idle"
  /\ context' = <<>>
  /\ step_count' = 0
  /\ SetRetry(_reset_action_tracking)
  /\ classified' = NoAction
  /\ history' = <<>>
  /\ op' = "reset"
  /\ NoStep
  /\ UNCHANGED <<outside, pc, run_task, run_return, run_steps>>

\* What a step leaves in the observation variables.
Observed(o, r, c, d, x, cad) ==
  /\ outcome' = o
  /\ result' = r
  /\ calls' = c
  /\ dispatched' = d
  /\ exec_result' = x
  /\ ctx_at_dispatch' = cad

\* The user turn's text: lines 117-119 (first step) and 127-129 (later steps).
UserText(user_prompt, is_first, current_app) ==
  LET screen_info == build_screen_info(current_app)
  IN  IF is_first
      THEN _compose_user_text(retry_state, user_prompt \o <<"\n", "\n">> \o screen_info)
      ELSE _compose_user_text(retry_state, <<"** Screen Info **", "\n", "\n">> \o screen_info)

\* The context after lines 113-135.
WithUserTurn(user_prompt, is_first, current_app, image_base64) ==
  LET base == IF is_first
              THEN Append(context, create_system_message(system_prompt))
              ELSE context
  IN  Append(base,
             create_user_message(UserText(user_prompt, is_first, current_app), image_base64))

\* The context after line 167.
ImageStripped(ctx) == [ctx EXCEPT ![Len(ctx)] = remove_images_from_message(ctx[Len(ctx)])]

\* Line 190 without the executor's signal.
Finished_OnlyFinish(executed_action, exec_res) ==
  Get(executed_action, "_metadata") = S_finish

\* Whether the step is finished: line 190.
Finished(executed_action, exec_res) ==
  Get(executed_action, "_metadata") = S_finish \/ exec_res.should_finish

\* Lines 182-211: the executor has answered exec_res for executed_action.
Complete(ctx, response, executed_action, exec_res, c, d) ==
  /\ context' = Append(ctx, create_assistant_message(AssistantText(response)))
  /\ SetRetry(_update_last_action_state(retry_state, executed_action))
  /\ classified' = executed_action
  /\ history' = Append(history, executed_action)
  /\ Observed("returned",
              StepResult(exec_res.success,
                         Finished(executed_action, exec_res),
                         executed_action,
                         response.thinking,
                         Or(exec_res.message, Get(executed_action, "message"))),
              c, d, exec_res, ctx)

\* The step ends by an exception that nothing catches.
Escapes(ctx, c, d, cad) ==
  /\ context' = ctx
  /\ UNCHANGED <<last_action_type, last_action_target, retry_count, classified, history>>
  /\ Observed("raised", NoResult, c, d, NoExec, cad)

\* Lines 169-211: dispatch of the decoded (or substituted) action.
Dispatch(ctx, response, action, c) ==
  \/ \E r \in ExecResults :
       Complete(ctx, response, action, r, Append(c, "execute"), <<action>>)
  \/ \E e \in ExcTexts :
       LET executed_action == finish(e)
           c2 == c \o <<"execute", "execute">>
           d2 == <<action, executed_action>>
       IN  \/ \E r \in ExecResults : Complete(ctx, response, executed_action, r, c2, d2)
           \/ Escapes(ctx, c2, d2, ctx)

\* Lines 154-159 with the substituted finish action carrying the thinking
\* instead of the offending action text.
Decode_WrongText(ctx, response, c) ==
  LET c2 == Append(c, "parse_action")
  IN  /\ model_response' = response
      /\ \/ /\ decode' = "ok"
            /\ \E action \in DecodedActions :
                 Dispatch(ImageStripped(ctx), response, action, c2)
         \/ /\ decode' = "ValueError"
            /\ Dispatch(ImageStripped(ctx), response, finish(response.thinking), c2)
         \/ /\ decode' = "error"
            /\ Escapes(ctx, c2, <<>>, <<>>)

\* Lines 154-159: the decoder's answer, or the finish action substituted for a
\* ValueError; any other exception escapes.
Decode(ctx, response, c) ==
  LET c2 == Append(c, "parse_action")
  IN  /\ model_response' = response
      /\ \/ /\ decode' = "ok"
            /\ \E action \in DecodedActions :
                 Dispatch(ImageStripped(ctx), response, action, c2)
         \/ /\ decode' = "ValueError"
            /\ Dispatch(ImageStripped(ctx), response, finish(response.action), c2)
         \/ /\ decode' = "error"
            /\ Escapes(ctx, c2, <<>>, <<>>)

\* Lines 137-152 with a transport failure reported as an unfinished step.
Exchange_NotTerminal(ctx, c) ==
  LET c2 == Append(c, "request")
  IN  \/ \E e \in ExcTexts :
           /\ NoExchange
           /\ context' = ctx
           /\ UNCHANGED <<last_action_type, last_action_target, retry_count, classified, history>>
           /\ Observed("returned",
                       StepResult(FALSE, FALSE, NoAction, <<>>, S_ModelError \o e),
                       c2, <<>>, NoExec, <<>>)
      \/ \E response \in Responses : Decode(ctx, response, c2)

\* Lines 143-152 with the failure recorded as an assistant turn and the retry
\* state cleared.
Exchange_RecordsFailure(ctx, c) ==
  LET c2 == Append(c, "request")
  IN  \/ \E e \in ExcTexts :
           /\ NoExchange
           /\ context' = Append(ctx, create_assistant_message(S_ModelError \o e))
           /\ SetRetry(_reset_action_tracking)
           /\ UNCHANGED <<classified, history>>
           /\ Observed("returned",
                       StepResult(FALSE, TRUE, NoAction, <<>>, S_ModelError \o e),
                       c2, <<>>, NoExec, <<>>)
      \/ \E response \in Responses : Decode(ctx, response, c2)

\* Lines 137-152: the model exchange.
Exchange(ctx, c) ==
  LET c2 == Append(c, "request")
  IN  \/ \E e \in ExcTexts :
           /\ NoExchange
           /\ context' = ctx
           /\ UNCHANGED <<last_action_type, last_action_target, retry_count, classified, history>>
           /\ Observed("returned",
                       StepResult(FALSE, TRUE, NoAction, <<>>, S_ModelError \o e),
                       c2, <<>>, NoExec, <<>>)
      \/ \E response \in Responses : Decode(ctx, response, c2)

\* _execute_step with line 108 moved below the model exchange: a step that
\* fails before the model answers is not counted.
_execute_step_CountsAfterExchange(user_prompt, is_first) ==
  /\ \/ NoExchange /\ Escapes(context, <<"get_screenshot">>, <<>>, <<>>)
     \/ \E image_base64 \in ImageData :
          \/ NoExchange
               /\ Escapes(context, <<"get_screenshot", "get_current_app">>, <<>>, <<>>)
          \/ \E current_app \in Apps :
               Exchange(WithUserTurn(user_prompt, is_first, current_app, image_base64),
                        <<"get_screenshot", "get_current_app">>)
  /\ step_count' = IF model_response' = NoResponse THEN step_count ELSE step_count + 1

\* Line 106 left out: the step leaves the counter as it found it.
_execute_step_NoCount(user_prompt, is_first) ==
  /\ step_count' = step_count
  /\ \/ NoExchange /\ Escapes(context, <<"get_screenshot">>, <<>>, <<>>)
     \/ \E image_base64 \in ImageData :
          \/ NoExchange
               /\ Escapes(context, <<"get_screenshot", "get_current_app">>, <<>>, <<>>)
          \/ \E current_app \in Apps :
               Exchange(WithUserTurn(user_prompt, is_first, current_app, image_base64),
                        <<"get_screenshot", "get_current_app">>)

\* PhoneAgent._execute_step
_execute_step(user_prompt, is_first) ==
  /\ step_count' = step_count + 1
  /\ \/ NoExchange /\ Escapes(context, <<"get_screenshot">>, <<>>, <<>>)
     \/ \E image_base64 \in ImageData :
          \/ NoExchange
               /\ Escapes(context, <<"get_screenshot", "get_current_app">>, <<>>, <<>>)
          \/ \E current_app \in Apps :
               Exchange(WithUserTurn(user_prompt, is_first, current_app, image_base64),
                        <<"get_screenshot", "get_current_app">>)

\* PhoneAgent.step
\* Line 93 taking a call with a task for a first one.
step_TaskMakesFirst(task) ==
  /\ pc = "idle"
  /\ step_count < MaxStepCount
  /\ LET is_first == Len(context) = 0 \/ Truthy(task)
     IN  IF is_first /\ ~Truthy(task)
         THEN /\ op' = "step_rejected"
              /\ NoExchange
              /\ Observed("raised", NoResult, <<>>, <<>>, NoExec, <<>>)
              /\ UNCHANGED <<agent, classified, history>>
         ELSE /\ op' = "step"
              /\ _execute_step(task, is_first)
  /\ UNCHANGED <<outside, pc, run_task, run_return, run_steps>>

\* PhoneAgent.step
step(task) ==
  /\ pc = "idle"
  /\ step_count < MaxStepCount
  /\ LET is_first == Len(context) = 0
     IN  IF is_first /\ ~Truthy(task)
         THEN /\ op' = "step_rejected"
              /\ NoExchange
              /\ Observed("raised", NoResult, <<>>, <<>>, NoExec, <<>>)
              /\ UNCHANGED <<agent, classified, history>>
         ELSE /\ op' = "step"
              /\ _execute_step(task, is_first)
  /\ UNCHANGED <<outside, pc, run_task, run_return, run_steps>>

\* run() with line 78 left out: the retry state of the task before is kept.
run_KeepsTracking(task) ==
  /\ pc = "idle"
  /\ context' = <<>>
  /\ step_count' = 0
  /\ UNCHANGED <<last_action_type, last_action_target, retry_count>>
  /\ classified' = NoAction
  /\ history' = <<>>
  /\ pc' = "first"
  /\ run_task' = task
  /\ run_return' = None
  /\ run_steps' = 0
  /\ op' = "run"
  /\ NoStep
  /\ UNCHANGED outside

\* PhoneAgent.run, lines 76-78
run(task) ==
  /\ pc = "idle"
  /\ context' = <<>>
  /\ step_count' = 0
  /\ SetRetry(_reset_action_tracking)
  /\ classified' = NoAction
  /\ history' = <<>>
  /\ pc' = "first"
  /\ run_task' = task
  /\ run_return' = None
  /\ run_steps' = 0
  /\ op' = "run"
  /\ NoStep
  /\ UNCHANGED outside

\* Lines 81-82 and 86-87 without the return on a finished step.
AfterStep_NoStop ==
  /\ run_steps' = run_steps + 1
  /\ IF outcome' = "raised"
     THEN pc' = "idle" /\ run_return' = Raised
     ELSE pc' = "loop" /\ run_return' = run_return
  /\ UNCHANGED <<outside, run_task>>

\* Where run() goes after a step: lines 81-82 and 86-87.
AfterStep ==
  /\ run_steps' = run_steps + 1
  /\ IF outcome' = "raised"
     THEN pc' = "idle" /\ run_return' = Raised
     ELSE IF result'.finished
          THEN pc' = "idle" /\ run_return' = Or(result'.message, S_TaskCompleted)
          ELSE pc' = "loop" /\ run_return' = run_return
  /\ UNCHANGED <<outside, run_task>>

\* PhoneAgent.run, line 80
RunFirst ==
  /\ pc = "first"
  /\ op' = "run_first"
  /\ _execute_step(run_task, TRUE)
  /\ AfterStep

\* PhoneAgent.run, lines 84-87: one iteration of the loop
RunNext ==
  /\ pc = "loop"
  /\ step_count < max_steps
  /\ op' = "run_next"
  /\ _execute_step(None, FALSE)
  /\ AfterStep

\* PhoneAgent.run, lines 84 and 89: the loop condition fails
RunCeiling ==
  /\ pc = "loop"
  /\ ~(step_count < max_steps)
  /\ pc' = "idle"
  /\ run_return' = S_MaxStepsReached
  /\ op' = "run_return"
  /\ NoStep
  /\ UNCHANGED <<outside, agent, classified, history, run_task, run_steps>>

Next ==
  \/ \E task \in Tasks : run(task)
  \/ RunFirst
  \/ RunNext
  \/ RunCeiling
  \/ \E task \in StepTasks : step(task)
  \/ reset

Spec == Init /\ [][Next]_vars

\* A run() that has been called goes on: the interpreter takes its next statement
\* whenever there is one, and every collaborator call made on the way comes back
\* (returning or raising) within the action that makes it.
SpecLive ==
  /\ Spec
  /\ WF_vars(RunFirst)
  /\ WF_vars(RunNext)
  /\ WF_vars(RunCeiling)

\* ------------------------------------------------- the retry tracker alone

A_TapBelow == [_metadata |-> S_do, action |-> S_Tap, element |-> <<100, 300>>]
A_DoubleTap == [_metadata |-> S_do, action |-> S_DoubleTap, element |-> <<100, 200>>]
A_Back == [_metadata |-> S_do, action |-> S_Back]
\* The actions fed to the tracker: equal and differing types and targets, and
\* one without a type.
TrackedActions == {A_Tap, A_TapBelow, A_DoubleTap, A_Back, A_Finish, A_NoName}

\* An agent with any retry threshold.
TrackerInit ==
  /\ max_steps = MaxCeiling
  /\ threshold \in 0..MaxThreshold
  /\ AgentInit
  /\ ClientIdle

\* One call of PhoneAgent._update_last_action_state.
Feed(action) ==
  /\ pc = "idle"
  /\ Len(history) < MaxFeeds
  /\ SetRetry(_update_last_action_state(retry_state, action))
  /\ classified' = action
  /\ history' = Append(history, action)
  /\ UNCHANGED <<outside, context, step_count, observed>>

TrackerNext ==
  \/ \E action \in TrackedActions : Feed(action)
  \/ reset

SpecTracker == TrackerInit /\ [][TrackerNext]_vars

\* ------------------------------------------- the signature target alone

\* An entered text of n characters, no two neighbours alike.
TextOf(n) == [i \in 1..n |-> <<"a", "b", "c">>[(i % 3) + 1]]
TypedTexts == { TextOf(n) : n \in 0..MaxTextLen }

S_Scroll == <<"S", "c", "r", "o", "l", "l">>
S_note == <<"n", "o", "t", "e">>
S_app == <<"a", "p", "p">>
S_duration == <<"2", " ", "s">>
\* Coordinate values as decoded: a pair, a longer list, a list too short.
Elements == {<<100, 200>>, <<1, 2, 3>>, <<7>>}

\* Decoded actions of every kind _format_action_target tells apart, with their
\* fields present, absent and malformed.
TargetActions ==
  { [_metadata |-> S_do, action |-> k, text |-> t] :
      k \in {S_Type, S_Type_Name}, t \in TypedTexts }
  \cup { [_metadata |-> S_do, action |-> k, element |-> e] :
           k \in {S_Tap, S_DoubleTap, S_LongPress}, e \in Elements }
  \cup { [_metadata |-> S_do, action |-> S_Swipe, start |-> e, end |-> f] :
           e \in Elements, f \in Elements }
  \cup { [_metadata |-> S_do, action |-> S_Swipe, start |-> e] : e \in Elements }
  \cup { [_metadata |-> S_do, action |-> k] :
           k \in {S_Type, S_Type_Name, S_Tap, S_DoubleTap, S_LongPress, S_Swipe, S_Launch,
                  S_Wait, S_Back, S_Home, S_Take_over, S_Scroll} }
  \cup { [_metadata |-> S_do, action |-> S_Launch, app |-> S_app],
         [_metadata |-> S_do, action |-> S_Wait, duration |-> S_duration],
         [_metadata |-> S_do, action |-> S_Take_over, message |-> S_note],
         [_metadata |-> S_do, action |-> S_Scroll, message |-> S_note],
         [_metadata |-> S_finish, message |-> S_note],
         [_metadata |-> S_finish],
         [_metadata |-> S_note, message |-> S_note],
         [message |-> S_note] }

\* PhoneAgent._update_last_action_state on a tracker that holds nothing.
TargetNext ==
  \/ \E action \in TargetActions : history = <<>> /\ Feed(action)
  \/ reset

SpecTarget == TrackerInit /\ [][TargetNext]_vars

\* ------------------------------------------------------- the parser alone

\* The characters of the enclosed texts: a letter, a blank and the two brackets.
Alphabet == {"a", " ", "<", ">"}
Texts == UNION { [1..n -> Alphabet] : n \in 0..MaxLen }

\* The segments of the texts without tags: a letter, a blank and the markers.
Segments == {<<"a">>, <<" ">>, S_finish_marker, S_do_marker}
SegmentLists == UNION { [1..n -> Segments] : n \in 0..MaxSegments }

RECURSIVE Join(_)
Join(segments) == IF segments = <<>> THEN <<>> ELSE Head(segments) \o Join(Tail(segments))

S_thinking_here == <<"t", "h", "i", "n", "k", "i", "n", "g", " ", "h", "e", "r", "e">>
S_finish_done == <<"f", "i", "n", "i", "s", "h", "(", "m", "e", "s", "s", "a", "g", "e", "=", "d", "o", "n", "e", ")">>

\* How a text is built: both tags around T and A; segments joined; a text
\* before a <tool_call> tag; a text as it is.
\* What a response cut short or tagged in part is made of: the thinking tag
\* alone, both tags with no closing tag, the last closing tag lost, the action
\* tag alone.
Shapes == {"think_only", "no_close", "no_tool_close", "tool_only"}

\* Whitespace a token boundary leaves inside a tag: after the <, within the name,
\* before the >.
Pads == {[at |-> "first", w |-> <<" ">>], [at |-> "mid", w |-> <<"\n">>],
         [at |-> "last", w |-> <<" ", "\t">>]}
PadAt(tag, pad) ==
  LET k == CASE pad.at = "first" -> 1
             [] pad.at = "mid" -> Len(tag) - 5
             [] pad.at = "last" -> Len(tag) - 1
  IN  SubSeq(tag, 1, k) \o pad.w \o SubSeq(tag, k + 1, Len(tag))
NoPad == [at |-> "first", w |-> <<>>]

\* The think_text pair around T, then A inside the tool_call pair or bare, every
\* tag padded alike.
Tagged(pad, tool, T, A) ==
  PadAt(S_think_open, pad) \o T \o PadAt(S_think_close, pad)
    \o (IF tool THEN PadAt(S_tool_open, pad) \o A \o PadAt(S_tool_close, pad) ELSE A)

Forms ==
  [kind : {"tagged"}, T : Texts, A : Texts]
    \cup [kind : {"segments"}, segments : SegmentLists]
    \cup [kind : {"preceded"}, P : {S_thinking_here, <<"a">>, <<"a", " ">>},
          A : {S_finish_done, <<"a">>}]
    \cup [kind : {"plain"}, text : Texts]
    \cup [kind : {"truncated"}, shape : Shapes, T : Texts, A : Texts]
    \cup [kind : {"spaced"}, pad : Pads, tool : BOOLEAN, T : Texts, A : Texts]

Build(f) ==
  CASE f.kind = "tagged" ->
         S_think_open \o f.T \o S_think_close \o S_tool_open \o f.A \o S_tool_close
    [] f.kind = "segments" -> Join(f.segments)
    [] f.kind = "preceded" -> f.P \o S_tool_open \o f.A \o S_tool_close
    [] f.kind = "plain" -> f.text
    [] f.kind = "truncated" ->
         (CASE f.shape = "think_only" -> S_think_open \o f.T
            [] f.shape = "no_close" -> S_think_open \o f.T \o S_tool_open \o f.A
            [] f.shape = "no_tool_close" ->
                 S_think_open \o f.T \o S_think_close \o S_tool_open \o f.A
            [] f.shape = "tool_only" -> S_tool_open \o f.A)
    [] f.kind = "spaced" -> Tagged(f.pad, f.tool, f.T, f.A)

\* A text is about to be parsed.
ParseInit ==
  /\ max_steps = MaxCeiling
  /\ threshold = retry_reminder_threshold
  /\ AgentInit
  /\ form \in Forms
  /\ content = Build(form)
  /\ parsed = NoResponse
  /\ normalizing = <<>>
  /\ fragments = <<>>
  /\ StreamIdle

\* One call of ModelClient._parse_response.
parse_response ==
  /\ content # None
  /\ parsed = NoResponse
  /\ parsed' = _parse_response(content)
  /\ UNCHANGED <<content, form, normalizing, stream, agent_side>>

SpecParse == ParseInit /\ [][parse_response]_vars

\* ------------------------------------------------- the normalization alone

\* The texts normalized.
TagTexts == UNION { [1..n -> Alphabet] : n \in 0..MaxTagText }

\* A text is about to be normalized.
NormalizeInit ==
  /\ max_steps = MaxCeiling
  /\ threshold = retry_reminder_threshold
  /\ AgentInit
  /\ content = None
  /\ form = NoForm
  /\ parsed = NoResponse
  /\ normalizing \in { <<text>> : text \in TagTexts }
  /\ fragments = <<>>
  /\ StreamIdle

\* One call of _normalize_xmlish_tags, on what the call before returned.
normalize_xmlish_tags ==
  /\ Len(normalizing) \in {1, 2}
  /\ normalizing' = Append(normalizing, _normalize_xmlish_tags(normalizing[Len(normalizing)]))
  /\ UNCHANGED <<parser, stream, agent_side>>

SpecNormalize == NormalizeInit /\ [][normalize_xmlish_tags]_vars

\* ------------------------------------------------------ the request alone

\* The texts streamed: a marker after markup and blanks, a marker after the
\* start of one, both tags, no marker, one marker in the argument of the
\* other, and the start of a marker at the end.
RequestTexts ==
  { <<"a", " ", "<", "b", ">", " ", "c", " ", "d", "o", "(", "a", "c", "t", "i", "o", "n", "=", "x", ")">>,
    <<"d", "o", " ", "f", "i", "n", "i", "s", "h", "(", "m", "e", "s", "s", "a", "g", "e", "=", "a">>,
    <<"<", "t", "h", "i", "n", "k", "_", "t", "e", "x", "t", ">", "a", "<", "/", "t", "h", "i", "n", "k", "_", "t", "e", "x", "t", ">", "<", "t", "o", "o", "l", "_", "c", "a", "l", "l", ">", "b", "<", "/", "t", "o", "o", "l", "_", "c", "a", "l", "l", ">">>,
    <<"a", " ", " ", "b">>,
    <<"d", "o", "(", "a", "c", "t", "i", "o", "n", "=", "f", "i", "n", "i", "s", "h", "(", "m", "e", "s", "s", "a", "g", "e", "=">>,
    <<"a", " ", "d">> }

\* The text cut at the places given, in that order.
RECURSIVE CutAt(_, _, _)
CutAt(text, from, cuts) ==
  IF cuts = <<>> THEN <<SliceFrom(text, from)>>
  ELSE <<Slice(text, from, Head(cuts))>> \o CutAt(text, Head(cuts), Tail(cuts))

\* Every way to deliver a text in MaxFragments fragments, empty ones included.
Cuts(text) ==
  { c \in [1..(MaxFragments - 1) -> 0..Len(text)] :
      \A i \in 1..(MaxFragments - 2) : c[i] <= c[i + 1] }
Streams == UNION { { CutAt(text, 0, c) : c \in Cuts(text) } : text \in RequestTexts }

\* A client with a stream to deliver.
RequestInit ==
  /\ max_steps = MaxCeiling
  /\ threshold = retry_reminder_threshold
  /\ AgentInit
  /\ content = None
  /\ form = NoForm
  /\ parsed = NoResponse
  /\ normalizing = <<>>
  /\ fragments \in Streams
  /\ StreamIdle

\* A call of request() begins: none is under way, and the tag state is as the
\* call before left it.
Invoked ==
  /\ rq # "streaming"
  /\ fragments # <<>>
  /\ exchanges < MaxExchanges
  /\ exchanges' = exchanges + 1
  /\ prev_in_tag' = in_tag
  /\ opens' = opens + 1

\* request() up to its loop with lines 111-112 left out: the tag state stays as
\* the call before left it.
request_open_KeepsTagState ==
  /\ Invoked
  /\ rq' = "streaming"
  /\ pos' = 0
  /\ UNCHANGED <<in_tag, tag_buffer>>
  /\ raw_content' = <<>>
  /\ buffer' = <<>>
  /\ in_action_phase' = FALSE
  /\ emitted' = <<>>
  /\ req_result' = NoResponse
  /\ UNCHANGED <<parser, normalizing, fragments, agent_side>>

\* request() up to its loop: lines 105-128.
request_open ==
  /\ Invoked
  /\ rq' = "streaming"
  /\ pos' = 0
  /\ in_tag' = FALSE
  /\ tag_buffer' = <<>>
  /\ raw_content' = <<>>
  /\ buffer' = <<>>
  /\ in_action_phase' = FALSE
  /\ emitted' = <<>>
  /\ req_result' = NoResponse
  /\ UNCHANGED <<parser, normalizing, fragments, agent_side>>

\* Lines 135-143 with raw_content accumulated after the test of in_action_phase.
Accumulate_UntilMarker(chunk) ==
  IF in_action_phase THEN raw_content ELSE raw_content \o chunk

\* Line 135
Accumulate(chunk) == raw_content \o chunk

\* Lines 142-143 left out of the loop: the chunks of the action phase go on to
\* the buffer and the preview.
request_chunk_NoActionPhase ==
  /\ rq = "streaming"
  /\ pos < Len(fragments)
  /\ pos' = pos + 1
  /\ LET chunk == fragments[pos + 1]
         buffered == buffer \o chunk
         marker == MarkerFound(buffered)
     IN  /\ raw_content' = Accumulate(chunk)
         /\ IF FALSE
            THEN UNCHANGED <<buffer, in_action_phase, in_tag, tag_buffer, emitted>>
            ELSE IF marker # <<>> /\ ~in_action_phase
            THEN LET cleaned == _clean_stream_content(SplitOnce(buffered, marker)[1],
                                                      in_tag, tag_buffer)
                 IN  /\ buffer' = buffered
                     /\ in_action_phase' = TRUE
                     /\ in_tag' = cleaned.in_tag
                     /\ tag_buffer' = cleaned.tag_buffer
                     /\ emitted' = Append(Printed(emitted, cleaned.clean_text), <<"\n">>)
            ELSE IF IsPotentialMarker(buffered)
            THEN /\ buffer' = buffered
                 /\ UNCHANGED <<in_action_phase, in_tag, tag_buffer, emitted>>
            ELSE LET cleaned == _clean_stream_content(buffered, in_tag, tag_buffer)
                 IN  /\ buffer' = <<>>
                     /\ in_tag' = cleaned.in_tag
                     /\ tag_buffer' = cleaned.tag_buffer
                     /\ emitted' = Printed(emitted, cleaned.clean_text)
                     /\ UNCHANGED in_action_phase
  /\ UNCHANGED <<parser, normalizing, fragments, rq, opens, exchanges, prev_in_tag,
                 req_result, agent_side>>

\* One turn of request()'s loop for a chunk with content: lines 130-183.
request_chunk ==
  /\ rq = "streaming"
  /\ pos < Len(fragments)
  /\ pos' = pos + 1
  /\ LET chunk == fragments[pos + 1]
         buffered == buffer \o chunk
         marker == MarkerFound(buffered)
     IN  /\ raw_content' = Accumulate(chunk)
         /\ IF in_action_phase
            THEN UNCHANGED <<buffer, in_action_phase, in_tag, tag_buffer, emitted>>
            ELSE IF marker # <<>>
            THEN LET cleaned == _clean_stream_content(SplitOnce(buffered, marker)[1],
                                                      in_tag, tag_buffer)
                 IN  /\ buffer' = buffered
                     /\ in_action_phase' = TRUE
                     /\ in_tag' = cleaned.in_tag
                     /\ tag_buffer' = cleaned.tag_buffer
                     /\ emitted' = Append(Printed(emitted, cleaned.clean_text), <<"\n">>)
            ELSE IF IsPotentialMarker(buffered)
            THEN /\ buffer' = buffered
                 /\ UNCHANGED <<in_action_phase, in_tag, tag_buffer, emitted>>
            ELSE LET cleaned == _clean_stream_content(buffered, in_tag, tag_buffer)
                 IN  /\ buffer' = <<>>
                     /\ in_tag' = cleaned.in_tag
                     /\ tag_buffer' = cleaned.tag_buffer
                     /\ emitted' = Printed(emitted, cleaned.clean_text)
                     /\ UNCHANGED in_action_phase
  /\ UNCHANGED <<parser, normalizing, fragments, rq, opens, exchanges, prev_in_tag,
                 req_result, agent_side>>

\* request() after its loop: lines 186-212.
request_return ==
  /\ rq = "streaming"
  /\ pos = Len(fragments)
  /\ rq' = "returned"
  /\ req_result' = [thinking |-> _parse_response(raw_content).thinking,
                    action |-> _parse_response(raw_content).action,
                    raw_content |-> raw_content]
  /\ UNCHANGED <<parser, normalizing, fragments, pos, raw_content, buffer, in_action_phase,
                 in_tag, tag_buffer, emitted, opens, exchanges, prev_in_tag, agent_side>>

\* Lines 110-123 when chat.completions.create raises: the tag state has been
\* reset (lines 111-112), no try encloses the call, request() is left.
request_open_raises ==
  /\ Invoked
  /\ rq' = "raised"
  /\ in_tag' = FALSE
  /\ tag_buffer' = <<>>
  /\ pos' = 0
  /\ raw_content' = <<>>
  /\ buffer' = <<>>
  /\ in_action_phase' = FALSE
  /\ emitted' = <<>>
  /\ req_result' = NoResponse
  /\ UNCHANGED <<parser, normalizing, fragments, agent_side>>

\* Line 130 with the failure caught and the call of line 114 made again.
request_chunk_raises_Reopens ==
  /\ rq = "streaming"
  /\ pos < Len(fragments)
  /\ opens < MaxFragments
  /\ opens' = opens + 1
  /\ pos' = 0
  /\ raw_content' = <<>>
  /\ buffer' = <<>>
  /\ in_action_phase' = FALSE
  /\ UNCHANGED <<parser, normalizing, fragments, rq, in_tag, tag_buffer, emitted, exchanges,
                 prev_in_tag, req_result, agent_side>>

\* Line 130 when the iterator raises in place of the next chunk: no try encloses
\* the loop, request() is left with what it had accumulated dropped.
request_chunk_raises ==
  /\ rq = "streaming"
  /\ pos < Len(fragments)
  /\ rq' = "raised"
  /\ UNCHANGED <<parser, normalizing, fragments, pos, raw_content, buffer, in_action_phase,
                 in_tag, tag_buffer, emitted, opens, exchanges, prev_in_tag, req_result,
                 agent_side>>

\* One call of request() on the stream.
RequestNext ==
  \/ exchanges = 0 /\ request_open
  \/ exchanges = 0 /\ request_open_raises
  \/ request_chunk
  \/ request_chunk_raises
  \/ request_return

SpecRequest == RequestInit /\ [][RequestNext]_vars

\* ------------------------------------------- ModelClient: call after call

\* ModelClient.__init__; the stream is a text that ends inside an unclosed <,
\* with the start of a marker held back before it.
ExchangesInit ==
  /\ max_steps = MaxCeiling
  /\ threshold = retry_reminder_threshold
  /\ AgentInit
  /\ content = None
  /\ form = NoForm
  /\ parsed = NoResponse
  /\ normalizing = <<>>
  /\ \E c \in Cuts(<<"a", " ", "d", "o", "<", "b">>) :
       fragments = CutAt(<<"a", " ", "d", "o", "<", "b">>, 0, c)
  /\ StreamIdle

\* Calls of request() on one client, each on the stream again.
ExchangesNext ==
  \/ request_open
  \/ request_open_raises
  \/ request_chunk
  \/ request_chunk_raises
  \/ request_return

SpecExchanges == ExchangesInit /\ [][ExchangesNext]_vars

\* ------------------------------------------------------- ChatGUI: one task

\* The actions below leave everything but the front end's own state alone.

\* ChatGUI.send_message with a non-empty input: the busy item is queued and the
\* thread started.  The main window gets no event while the dialog holds the
\* grab or after it is destroyed.
send_message ==
  /\ ~dialog
  /\ ~(_busy \/ _closing)
  /\ sends < MaxSends
  /\ sends' = sends + 1
  /\ uiq' = Append(uiq, TRUE)
  /\ workers' = workers + 1
  /\ UNCHANGED <<_busy, _closing, dialog, builds,
               max_steps, threshold, agent, observed, classified, history, client>>

\* ChatGUI.run_agent, as the thread leaves it: agent.run has returned or raised,
\* and the finally clause queues the idle item (_set_busy, lines 752-754).
run_agent ==
  /\ workers > 0
  /\ workers' = workers - 1
  /\ uiq' = IF _closing THEN uiq ELSE Append(uiq, FALSE)
  /\ UNCHANGED <<_busy, _closing, dialog, sends, builds,
               max_steps, threshold, agent, observed, classified, history, client>>

\* ChatGUI._drain_ui_queue on a queue with busy items: it takes them all, the
\* last one stays in _busy.
_drain_ui_queue ==
  /\ ~_closing
  /\ uiq # <<>>
  /\ _busy' = uiq[Len(uiq)]
  /\ uiq' = <<>>
  /\ UNCHANGED <<_closing, dialog, workers, sends, builds,
               max_steps, threshold, agent, observed, classified, history, client>>

\* ChatGUI.open_settings_dialog: lines 492-500.
open_settings_dialog ==
  /\ ~dialog
  /\ ~_closing
  /\ ~_busy
  /\ dialog' = TRUE
  /\ UNCHANGED <<_busy, _closing, uiq, workers, sends, builds,
               max_steps, threshold, agent, observed, classified, history, client>>

\* save_and_apply with valid fields: _reload_agent (lines 272-279), then the
\* dialog is destroyed.
save_and_apply ==
  /\ dialog
  /\ _busy \/ builds < MaxBuilds
  /\ builds' = IF _busy THEN builds ELSE builds + 1
  /\ dialog' = FALSE
  /\ UNCHANGED <<_busy, _closing, uiq, workers, sends,
               max_steps, threshold, agent, observed, classified, history, client>>

\* The dialog's cancel button: win.destroy, line 570.
cancel_dialog ==
  /\ dialog
  /\ dialog' = FALSE
  /\ UNCHANGED <<_busy, _closing, uiq, workers, sends, builds,
               max_steps, threshold, agent, observed, classified, history, client>>

\* ChatGUI._on_close
_on_close ==
  /\ ~dialog
  /\ ~_closing
  /\ _closing' = TRUE
  /\ UNCHANGED <<_busy, uiq, dialog, workers, sends, builds,
               max_steps, threshold, agent, observed, classified, history, client>>

GuiInit ==
  /\ max_steps = MaxCeiling
  /\ threshold = retry_reminder_threshold
  /\ AgentInit
  /\ ClientIdle

GuiNext ==
  \/ send_message
  \/ run_agent
  \/ _drain_ui_queue
  \/ open_settings_dialog
  \/ save_and_apply
  \/ cancel_dialog
  \/ _on_close

SpecGui == GuiInit /\ [][GuiNext]_vars

\* ------------------------------------------------------------------ claims

RunStepOps == {"run_first", "run_next"}
StepOps == {"step", "run_first", "run_next"}
\* The last step's model request raised.
ModelFailed == outcome = "returned" /\ calls = <<"get_screenshot", "get_current_app", "request">>
\* The action the last step dispatched last.
LastDispatched == dispatched[Len(dispatched)]

\* C1: a run whose steps never finish executes exactly max_steps steps and then
\* returns "Max steps reached"; it never executes a step beyond the ceiling.
\* (pc = "loop": every step of the run so far has returned unfinished.)
C1_ExactlyCeilingSteps ==
  /\ pc = "loop" => run_steps <= max_steps
  /\ op = "run_return" => (run_steps = max_steps /\ run_return = S_MaxStepsReached)

\* C2: run() stops at the first finished step: while it loops the last step was
\* not finished, a finished step is followed by no further step of that run, and
\* run returns that step's message, or "Task completed" when it is empty.
C2_StopsAtFirstFinished ==
  /\ [](/\ pc = "loop" => (outcome = "returned" /\ ~result.finished)
        /\ (op \in RunStepOps /\ outcome = "returned" /\ result.finished) =>
             /\ pc = "idle"
             /\ run_return = IF Truthy(result.message) THEN result.message
                             ELSE S_TaskCompleted)
  /\ [][(op \in RunStepOps /\ outcome = "returned" /\ result.finished)
          => op' \notin RunStepOps]_vars

\* C2's case: the second step of a run finishes with an empty message.
C2_Witness ==
  /\ op = "run_next"
  /\ outcome = "returned"
  /\ result.finished
  /\ ~Truthy(result.message)
  /\ run_return = S_TaskCompleted

\* C3: a step that reached dispatch and returned is finished iff the action it
\* dispatched last is a finish action or the executor's answer signals completion.
C3_FinishedIff ==
  (outcome = "returned" /\ Len(dispatched) > 0) =>
    (result.finished <=>
       (Get(LastDispatched, "_metadata") = S_finish \/ exec_result.should_finish))

\* C3's case: a step finished by the executor's signal alone.
C3_Witness ==
  /\ outcome = "returned"
  /\ Len(dispatched) > 0
  /\ result.finished
  /\ Get(LastDispatched, "_metadata") # S_finish
  /\ exec_result.should_finish

\* C4: no exception escapes a step: every executed step returns a StepResult.
C4_NoEscape == op \in StepOps => outcome = "returned"

\* C5: a step whose model request raises returns finished, unsuccessful, without
\* action and with a message describing the error, and a run ends there with
\* that message.
C5_ModelFailureTerminal ==
  ModelFailed =>
    /\ result.finished
    /\ ~result.success
    /\ result.action = NoAction
    /\ \E e \in ExcTexts : result.message = S_ModelError \o e
    /\ op \in RunStepOps => (pc = "idle" /\ run_return = result.message)

\* C5's case: the model request of a run's second step raises.
C5_Witness == ModelFailed /\ op = "run_next" /\ run_steps = 2

\* C6 as claimed: after a decode error the returned StepResult is finished and
\* carries the finish action synthesized from the offending text.
C6_CarriesOffendingText ==
  (decode = "ValueError" /\ outcome = "returned") =>
    /\ dispatched[1] = finish(model_response.action)
    /\ result.finished
    /\ result.action = finish(model_response.action)

\* C6 amended: after a decode error the step dispatches a finish action whose
\* message is the offending text; the returned StepResult is finished and carries
\* that action, unless the executor raised on it, in which case it carries the
\* finish action substituted for the executor's exception.
C6_Amended ==
  decode = "ValueError" =>
    /\ Len(dispatched) >= 1
    /\ dispatched[1] = finish(model_response.action)
    /\ outcome = "returned" =>
         /\ result.finished
         /\ IF Len(dispatched) = 1
            THEN result.action = finish(model_response.action)
            ELSE \E e \in ExcTexts : result.action = finish(e)

\* C6's case: a decode error whose synthesized finish action the executor accepts.
C6_Witness ==
  /\ decode = "ValueError"
  /\ outcome = "returned"
  /\ Len(dispatched) = 1
  /\ result.finished
  /\ result.action.message = model_response.action

\* C7: when the executor raises on the decoded action, the step dispatches the
\* substituted finish action once more and ends finished, with that action as
\* StepResult.action and as the action fed to the retry tracker.
C7_ExecutorRaiseEndsFinished ==
  Len(dispatched) = 2 =>
    /\ \E e \in ExcTexts : dispatched[2] = finish(e)
    /\ outcome = "returned"
    /\ result.finished
    /\ result.action = dispatched[2]
    /\ classified = dispatched[2]

\* C8: at most one turn of the context carries an image, and it is the last one.
C8_OnlyLastTurnHasImage ==
  \A i \in 1..Len(context) : context[i].image => i = Len(context)

\* C9: every executed step raises the step counter by exactly 1, and the counter
\* decreases only by reset() or the start of a run(), which set it to 0.
C9_CounterMonotone ==
  [][/\ op' \in StepOps => step_count' = step_count + 1
     /\ op' \in {"reset", "run"} => step_count' = 0
     /\ step_count' < step_count => op' \in {"reset", "run"}]_vars

\* C9's case: a second step, ended by a transport failure, has raised the counter.
C9_Witness == ModelFailed /\ op = "step" /\ step_count = 2

\* C10 as claimed: the retry count is 0 iff no action has been classified since
\* the last reset or run start.
C10_ZeroIffUnclassified == retry_count = 0 <=> classified = NoAction

\* C10 amended: the retry count is 0 iff no action has been classified since the
\* last reset or run start or the action classified last has an empty type;
\* otherwise it is at least 1.
C10_Amended ==
  /\ retry_count >= 0
  /\ retry_count = 0 <=> (classified = NoAction \/ ~Truthy(ActionType(classified)))

\* C10's case: the same action classified twice in a row.
C10_Witness == classified = A_Tap /\ retry_count = 2

\* The signature the tracker takes from an action: its type and its target.
Signature(action) == <<ActionType(action), _format_action_target(action)>>

\* How many of the last actions fed have the signature of the last one.
RECURSIVE Streak(_)
Streak(h) ==
  IF Len(h) <= 1 THEN Len(h)
  ELSE IF Signature(h[Len(h) - 1]) = Signature(h[Len(h)])
       THEN 1 + Streak(SubSeq(h, 1, Len(h) - 1))
       ELSE 1

\* The stored signature is that of the action fed last.
StoresLast ==
  /\ last_action_type = ActionType(history[Len(history)])
  /\ last_action_target = _format_action_target(history[Len(history)])

\* C11 as claimed: the same signature fed N consecutive times leaves count N,
\* for every N >= 1; a signature that differs from the one before leaves count
\* 1, or 0 when its type is empty, and the stored type and target are replaced.
C11_RepeatsCounted ==
  history # <<>> =>
    /\ StoresLast
    /\ retry_count = IF Streak(history) = 1 /\ ~Truthy(last_action_type)
                     THEN 0 ELSE Streak(history)

\* C11 amended: the same signature with a non-empty type fed N consecutive
\* times leaves count N; a signature with an empty type leaves count 0 however
\* often it is fed; a signature that differs from the one before leaves count
\* 1, or 0 when its type is empty; the stored type and target are those of the
\* signature fed last.
C11_Amended ==
  history # <<>> =>
    /\ StoresLast
    /\ retry_count = IF Truthy(last_action_type) THEN Streak(history) ELSE 0

\* C11's case: a signature that differs in its target, then the same one twice.
C11_Witness == history = <<A_TapBelow, A_Tap, A_Tap>> /\ retry_count = 2

\* The rendered note, None when there is none.
Note == _build_retry_note(retry_state)
\* The note carries the escalation clause.
HasEscalation(note) == \E i \in 1..Len(note) : note[i] = S_NoteEscalation[1]

\* C12 as claimed: for every threshold T a rendered note carries the escalation
\* clause iff count >= T.
C12_EscalatesAtThreshold ==
  Note # None => (HasEscalation(Note) <=> retry_count >= threshold)

\* C12 amended: for every threshold T >= 1 a rendered note carries the
\* escalation clause iff count >= T, so with T = 3 not for count 1 and 2 and
\* for every count >= 3; with T = 0 no note carries it.
C12_Amended ==
  Note # None =>
    /\ threshold >= 1 => (HasEscalation(Note) <=> retry_count >= threshold)
    /\ threshold = 0 => ~HasEscalation(Note)

\* C12's case: the default threshold reached by the third repeat.
C12_Witness ==
  threshold = retry_reminder_threshold /\ retry_count = 3 /\ HasEscalation(Note)

IsPrefix(p, t) == Len(p) <= Len(t) /\ SubSeq(t, 1, Len(p)) = p
\* The text starts as a retry note does.
StartsWithNote(text) == IsPrefix(S_NoteHead, text)
\* The step taken built a user turn: both device reads returned, and the
\* model was requested.
BuiltUserTurn == op' \in StepOps /\ step_count' = step_count + 1 /\ Len(calls') >= 3
\* The text of the user turn the step taken built.
BuiltUserText == context'[IF context = <<>> THEN 2 ELSE Len(context) + 1].text
\* The note for the actions executed so far: type, target and count of the
\* run of equal signatures that ends the history.
StreakNote ==
  LET last == history[Len(history)]
      target == _format_action_target(last)
  IN  S_NoteHead \o ActionType(last)
        \o (IF target = <<>> THEN <<>> ELSE <<" ">> \o target)
        \o S_NoteMid \o IntToStr(Streak(history)) \o S_NoteTail

LaterUserTexts ==
  { (IF retry_count > 0 THEN StreakNote \o <<"\n", "\n">> ELSE <<>>)
      \o <<"** Screen Info **", "\n", "\n">> \o build_screen_info(current_app) :
    current_app \in Apps }

\* C14: a step() that is rejected was called on an empty context and leaves
\* the context, the step counter and the retry state as they were; a step()
\* executed on an empty context was called with a task, which leads its user
\* turn; on a non-empty context step() is never rejected, and the user turn it
\* builds carries the retry note and the screen information and no task.
C14_TaskOnlyOnFirstStep ==
  [][/\ op' = "step_rejected" =>
          /\ context = <<>>
          /\ outcome' = "raised" /\ calls' = <<>>
          /\ UNCHANGED agent
     /\ (op' = "step" /\ context = <<>>) =>
          /\ step_count' = step_count + 1
          /\ BuiltUserTurn =>
               \E task \in Tasks : IsPrefix(task \o <<"\n", "\n">>, BuiltUserText)
     /\ (op' = "step" /\ context # <<>>) =>
          /\ step_count' = step_count + 1
          /\ BuiltUserTurn =>
               /\ Len(context') \in {Len(context) + 1, Len(context) + 2}
               /\ context'[Len(context) + 1].role = "user"
               /\ BuiltUserText \in LaterUserTexts]_vars

\* C14's case: a second step() has added a user turn that starts with the
\* screen information, whatever task it was called with.
C14_Witness ==
  /\ op = "step" /\ step_count = 2 /\ Len(context) >= 4
  /\ context[2].role = "user" /\ IsPrefix(<<"t">>, context[2].text)
  /\ context[4].role = "user" /\ IsPrefix(<<"** Screen Info **">>, context[4].text)

\* The agent state reset() leaves.
Cleared ==
  /\ context = <<>>
  /\ step_count = 0
  /\ last_action_type = None /\ last_action_target = None /\ retry_count = 0

\* C15: reset() leaves the context empty, the step counter 0 and the retry
\* state cleared, whatever the state before, calls no collaborator and changes
\* no configuration; the state it leaves is one a second reset() leaves as it is.
C15_ResetClears ==
  /\ [](op = "reset" => Cleared /\ calls = <<>> /\ dispatched = <<>>)
  /\ [][reset => /\ Cleared'
                  /\ calls' = <<>> /\ dispatched' = <<>>
                  /\ UNCHANGED outside
                  /\ (Cleared => UNCHANGED agent)]_vars

\* C15's case: reset() after a run of two steps.
C15_Witness == op = "reset" /\ run_steps = 2 /\ Cleared

Parsed == parsed # NoResponse

\* C16: for every text <think_text>T</think_text><tool_call>A</tool_call> the
\* parser returns exactly T for the thinking and exactly A for the action.
C16_ExactSubstrings ==
  (Parsed /\ form.kind = "tagged") => parsed = ModelResponse(form.T, form.A)

\* The least index at which either marker occurs, -1 when neither does.
FirstMarker(text) ==
  LET f == Find(text, S_finish_marker, 0)
      d == Find(text, S_do_marker, 0)
  IN  IF f = -1 THEN d ELSE IF d = -1 THEN f ELSE IF f < d THEN f ELSE d

\* C18: a text without a <tool_call> tag that contains a marker is split at the
\* earliest occurrence of either marker: the thinking is everything before it,
\* the action everything from it on.
C18_SplitsAtEarliestMarker ==
  (Parsed /\ ~Contains(content, S_tool_open) /\ FirstMarker(content) # -1) =>
    parsed = ModelResponse(Slice(content, 0, FirstMarker(content)),
                           SliceFrom(content, FirstMarker(content)))

\* The text has neither a <tool_call> tag, also once the whitespace inside its
\* tags is removed, nor a marker.
Unmarked(text) ==
  /\ ~Contains(_normalize_xmlish_tags(text), S_tool_open)
  /\ FirstMarker(text) = -1

\* C19 as claimed: the parser returns a pair for every text, and for a text
\* with neither tag nor marker the thinking is empty and the action is the
\* entire text.
C19_FallbackEntireText ==
  Parsed =>
    /\ DOMAIN parsed = {"thinking", "action"}
    /\ Unmarked(content) => parsed = ModelResponse(<<>>, content)

\* C19 amended: the parser returns a pair for every text, and for a text with
\* neither tag nor marker the thinking is empty and the action is the text
\* without its leading and trailing whitespace.
C19_Amended ==
  Parsed =>
    /\ DOMAIN parsed = {"thinking", "action"}
    /\ Unmarked(content) => parsed = ModelResponse(<<>>, Strip(content))

\* C19's case: a text of a blank and a letter, parsed.
C19_Witness ==
  Parsed /\ content = <<" ", "a">> /\ parsed = ModelResponse(<<>>, <<"a">>)

\* C20: a text before a <tool_call> tag, with no <think_text> tag, is returned
\* as the thinking (non-empty), and the enclosed text as the action; so for
\* thinking here<tool_call>finish(message=done)</tool_call>.
C20_PrecedingTextIsThinking ==
  (Parsed /\ form.kind = "preceded") =>
    /\ parsed.thinking # <<>>
    /\ parsed.action = form.A

\* C17: whatever the fragments a text is delivered in, request() returns the
\* raw text, the thinking and the action of the parser on the whole text, and
\* so the same for any two ways to split it.
C17_ChunkInvariant ==
  rq = "returned" =>
    /\ req_result.raw_content = Join(fragments)
    /\ req_result.thinking = _parse_response(Join(fragments)).thinking
    /\ req_result.action = _parse_response(Join(fragments)).action

\* C17's case: a marker split over two fragments, with a third after it.
C17_Witness ==
  /\ rq = "returned"
  /\ fragments = <<<<"a", " ", "<", "b", ">", " ", "c", " ", "d", "o", "(", "a", "c">>, <<"t", "i", "o", "n", "=">>, <<"x", ")">>>>
  /\ req_result.action = <<"d", "o", "(", "a", "c", "t", "i", "o", "n", "=", "x", ")">>

\* C21: normalizing a text twice gives what normalizing it once gives.
C21_NormalizeIdempotent == Len(normalizing) = 3 => normalizing[3] = normalizing[2]

\* C21's case: a tag with a blank inside, normalized twice.
C21_Witness == normalizing = << <<"<", " ", "a", ">">>, <<"<", "a", ">">>, <<"<", "a", ">">> >>

\* The text a stream delivers, and how much of it the first k fragments are.
Delivered == Join(fragments)
RECURSIVE Arrived(_)
Arrived(k) == IF k = 0 THEN 0 ELSE Arrived(k - 1) + Len(fragments[k])

\* Where the earliest marker occurrence of the text delivered ends.
FirstMarkerEnd ==
  LET m == FirstMarker(Delivered)
  IN  m + (IF Find(Delivered, S_finish_marker, 0) = m THEN Len(S_finish_marker)
           ELSE Len(S_do_marker))

\* The earliest marker occurrence lies across a fragment boundary.
MarkerSplit ==
  /\ FirstMarker(Delivered) # -1
  /\ \E k \in 1..(Len(fragments) - 1) :
       FirstMarker(Delivered) < Arrived(k) /\ Arrived(k) < FirstMarkerEnd

\* What the text before the earliest marker shows outside its markup, without
\* whitespace.
ThinkingShown ==
  RemoveWhitespace(CleanScan(Slice(Delivered, 0, FirstMarker(Delivered)),
                             <<>>, FALSE, <<>>).clean_chars)

\* C22: when the earliest marker of a stream is split across fragments, it is
\* detected with the fragment that brings its last character and not before,
\* the preview shows text from before that marker only, and request() returns
\* the text from that marker on as the action.
C22_SplitMarkerDetected ==
  (MarkerSplit /\ rq # "idle") =>
    /\ in_action_phase <=> Arrived(pos) >= FirstMarkerEnd
    /\ IsPrefix(RemoveWhitespace(Join(emitted)), ThinkingShown)
    /\ rq = "returned" => req_result.action = SliceFrom(Delivered, FirstMarker(Delivered))

\* C23: once a marker has been detected, no turn of request() emits anything
\* more to the preview, and every further fragment is still added to the raw
\* text.
C23_PreviewStopsAtMarker ==
  [][in_action_phase /\ exchanges' = exchanges =>
       /\ emitted' = emitted
       /\ in_action_phase'
       /\ pos' = pos + 1 => raw_content' = raw_content \o fragments[pos + 1]]_vars

\* C23's case: the marker came with the first fragment, and text after it.
C23_Witness ==
  /\ in_action_phase /\ pos = 3
  /\ MarkerFound(fragments[1]) # <<>>
  /\ fragments[2] # <<>> /\ fragments[3] # <<>>
  /\ raw_content = Delivered

\* C24: an invocation of request() makes exactly one streaming call; when the
\* call or the stream raises, request() is left without a ModelResponse and
\* nothing of it runs again: no second call, no further chunk, no return.
C24_OneCallNoRetry ==
  /\ [](opens = exchanges)
  /\ [](rq = "raised" => req_result = NoResponse)
  /\ [][rq = "raised" /\ exchanges' = exchanges => UNCHANGED stream]_vars

\* C24's case: the stream raised after it had delivered a marker.
C24_Witness ==
  /\ rq = "raised"
  /\ opens = 1
  /\ pos = 2
  /\ in_action_phase
  /\ req_result = NoResponse

\* C25: a run() that was called is left again, whatever max_steps is: every step
\* it executes increases the step counter by one, an iteration of the loop is
\* only entered while the counter is below max_steps, and the run goes on after
\* a step only if that step returned unfinished.
C25_RunTerminates ==
  /\ (pc # "idle") ~> (pc = "idle")
  /\ [][op' \in RunStepOps =>
          /\ step_count' = step_count + 1
          /\ op' = "run_next" => step_count < max_steps
          /\ pc' = "loop" <=> (outcome' = "returned" /\ ~result'.finished)]_vars

\* C25's case: a run whose steps all returned unfinished was ended by the counter.
C25_Witness ==
  /\ op = "run_return"
  /\ pc = "idle"
  /\ max_steps = MaxCeiling
  /\ run_steps = max_steps
  /\ step_count = max_steps

\* The kind and the fields of the action the tracker was fed last.
Fed == classified
FedIsDo == Get(Fed, "_metadata") = S_do
FedKind == Get(Fed, "action")
PointKinds == {S_Tap, S_DoubleTap, S_LongPress}
TextKinds == {S_Type, S_Type_Name}
OtherKinds == {S_Launch, S_Swipe, S_Wait, S_Back, S_Home, S_Take_over}
\* The entered text cut for display: itself up to 50 characters, else its first
\* 47 characters and three dots.
Shown(text) == IF Len(text) <= 50 THEN text ELSE SubSeq(text, 1, 47) \o <<".", ".", ".">>
Quoted(text) == <<"t", "e", "x", "t", "=", "'">> \o text \o <<"'">>

\* The rule of every kind but text entry.
TargetRuleButText ==
  /\ Get(Fed, "_metadata") = S_finish => last_action_target = GetDefault(Fed, "message", <<>>)
  /\ Get(Fed, "_metadata") \notin {S_finish, S_do} => last_action_target = <<>>
  /\ FedIsDo /\ FedKind = S_Launch => last_action_target = GetDefault(Fed, "app", <<>>)
  /\ FedIsDo /\ FedKind \in PointKinds =>
       last_action_target = IF "element" \in DOMAIN Fed /\ Len(Fed.element) >= 2
                            THEN FormatPoint(Fed.element) ELSE <<>>
  /\ FedIsDo /\ FedKind = S_Swipe =>
       last_action_target =
         IF /\ "start" \in DOMAIN Fed /\ Len(Fed.start) >= 2
            /\ "end" \in DOMAIN Fed /\ Len(Fed.end) >= 2
         THEN FormatPoint(Fed.start) \o <<" ", "-", ">", " ">> \o FormatPoint(Fed.end)
         ELSE <<>>
  /\ FedIsDo /\ FedKind = S_Wait => last_action_target = GetDefault(Fed, "duration", <<>>)
  /\ FedIsDo /\ FedKind \in {S_Back, S_Home} => last_action_target = S_navigation
  /\ FedIsDo /\ FedKind = S_Take_over => last_action_target = GetDefault(Fed, "message", <<>>)
  /\ FedIsDo /\ FedKind \notin PointKinds \cup TextKinds \cup OtherKinds =>
       last_action_target = <<>>

C27_AssistantTurnBeforeDispatch ==
  dispatched # <<>> =>
    /\ Len(ctx_at_dispatch) >= 2
    /\ ctx_at_dispatch[Len(ctx_at_dispatch)] =
         create_assistant_message(AssistantText(model_response))
    /\ ctx_at_dispatch[Len(ctx_at_dispatch) - 1].role = "user"
    /\ ~ctx_at_dispatch[Len(ctx_at_dispatch) - 1].image

\* The transition is a step whose model request raised: the step returned and
\* holds no response.
ModelFailedStep == op' \in StepOps /\ outcome' = "returned" /\ model_response' = NoResponse
\* The turns the transition added to the context (run() has emptied it before
\* its first step).
AddedTurns == SubSeq(context', Len(context) + 1, Len(context'))

\* C28: a step whose model request fails leaves last type, last target and count
\* as they were, calls neither the decoder nor the executor, and adds no
\* assistant turn to the context: the user turn it submitted is the last one.
C28_ModelFailureFrame ==
  [][ModelFailedStep =>
       /\ UNCHANGED <<last_action_type, last_action_target, retry_count>>
       /\ \A i \in 1..Len(calls') : calls'[i] \notin {"parse_action", "execute"}
       /\ dispatched' = <<>>
       /\ SubSeq(context', 1, Len(context)) = context
       /\ AddedTurns # <<>>
       /\ \A i \in 1..Len(AddedTurns) : AddedTurns[i].role # "assistant"
       /\ context'[Len(context')].role = "user"]_vars

\* C28's case: the model request failed in a step after one that recorded an
\* action.
C28_Witness ==
  /\ op \in StepOps
  /\ outcome = "returned"
  /\ model_response = NoResponse
  /\ retry_count >= 1
  /\ last_action_type = S_Tap
  /\ Len(context) = 4

\* The opening tag occurs in the text and its closing tag does not occur after it.
Unclosed(text, a, b) ==
  /\ Find(text, a, 0) # -1
  /\ Find(text, b, Find(text, a, 0) + Len(a)) = -1
\* Everything after the first occurrence of the tag.
AfterTag(text, a) == SliceFrom(text, Find(text, a, 0) + Len(a))

\* C29: when <think_text> is present and </think_text> absent the thinking is
\* everything after <think_text>; when <tool_call> is present and </tool_call>
\* absent the action is everything after <tool_call>.
C29_TolerantTruncation ==
  Parsed =>
    /\ Unclosed(content, S_think_open, S_think_close) =>
         parsed.thinking = AfterTag(content, S_think_open)
    /\ Unclosed(content, S_tool_open, S_tool_close) =>
         parsed.action = AfterTag(content, S_tool_open)

\* The same text with its tags cleanly spelled.
CleanText == Tagged(NoPad, form.tool, form.T, form.A)

\* C30 as stated: a text with whitespace inside its think_text/tool_call tags
\* parses to the same (thinking, action) as the text with clean tags.
C30_PaddingIgnored_AsStated ==
  (Parsed /\ form.kind = "spaced") => parsed = _parse_response(CleanText)

\* C30: a text that has a tool_call tag parses, with whitespace inside its
\* think_text/tool_call tags, to the same (thinking, action) as with clean tags.
C30_PaddingIgnored ==
  (Parsed /\ form.kind = "spaced" /\ form.tool) => parsed = _parse_response(CleanText)

\* C30's case: a padded text with both tag pairs has been parsed.
C30_Witness ==
  /\ Parsed
  /\ form.kind = "spaced" /\ form.tool
  /\ form.pad.at = "mid"
  /\ content # CleanText
  /\ parsed = ModelResponse(<<"a">>, <<"a", "a">>)

\* The character at place p of the text belongs to markup: a < at or before it
\* has no > between the two (the < and its > belong to the markup).
InMarkup(text, p) ==
  \E i \in 1..p : text[i] = "<" /\ \A j \in (i + 1)..(p - 1) : text[j] # ">"
\* The characters of the text outside markup that are no whitespace, in order.
RECURSIVE ShownUpTo(_, _)
ShownUpTo(text, p) ==
  IF p = 0 THEN <<>>
  ELSE ShownUpTo(text, p - 1)
         \o (IF InMarkup(text, p) \/ text[p] \in Whitespace THEN <<>> ELSE <<text[p]>>)
\* An emission of the preview other than the line end after the thinking.
Emissions == { i \in 1..Len(emitted) : emitted[i] # <<"\n">> }

\* C31: the preview holds, in their order, only characters the text streamed so
\* far has outside its markup, also when markup is split across fragments, and
\* no emission has two whitespace characters in a row.
C31_PreviewClean ==
  /\ IsPrefix(RemoveWhitespace(Join(emitted)), ShownUpTo(raw_content, Len(raw_content)))
  /\ \A i \in Emissions : \A k \in 1..(Len(emitted[i]) - 1) :
       ~(emitted[i][k] \in Whitespace /\ emitted[i][k + 1] \in Whitespace)

\* C31's case: markup opened in one fragment and closed in the next, with text
\* shown after it.
C31_Witness ==
  /\ rq = "returned"
  /\ Len(fragments) = 3
  /\ Contains(fragments[1], <<"<">>) /\ ~Contains(fragments[1], <<">">>)
  /\ Contains(fragments[2], <<"b", ">", " ", "c">>)
  /\ \E i \in Emissions : Contains(emitted[i], <<"c">>)
  /\ \A i \in Emissions : ~Contains(emitted[i], <<"b">>)

\* C32: whatever the call before left, at the start of a call of request() the
\* inside-tag flag is false and the tag buffer and the pending buffer are empty.
C32_FreshParserState ==
  /\ []((rq = "streaming" /\ pos = 0) => (~in_tag /\ tag_buffer = <<>> /\ buffer = <<>>))
  /\ [][exchanges' = exchanges + 1 =>
          (~in_tag' /\ tag_buffer' = <<>> /\ buffer' = <<>>)]_vars

\* C32's case: a second call has begun after a first that was left inside an
\* unclosed <.
C32_Witness ==
  /\ exchanges = 2
  /\ prev_in_tag
  /\ rq = "streaming"
  /\ pos = 0
  /\ ~in_tag

\* The text has <tool_call>, a </tool_call> after it, and nothing but whitespace
\* between the two.
BlankCall(text) ==
  /\ Find(text, S_tool_open, 0) # -1
  /\ Find(text, S_tool_close, Find(text, S_tool_open, 0) + Len(S_tool_open)) # -1
  /\ Strip(_extract_between(text, S_tool_open, S_tool_close)) = <<>>

\* C33 as stated: when nothing or only whitespace lies between <tool_call> and
\* </tool_call>, the action is everything after <tool_call>, </tool_call>
\* included.
C33_BlankCallKeepsRest ==
  (Parsed /\ BlankCall(content)) =>
    /\ parsed.action # <<>>
    /\ parsed.action = AfterTag(content, S_tool_open)

\* C33: when nothing or only whitespace lies between <tool_call> and
\* </tool_call> of the normalized text, the action is not empty: it is
\* everything after <tool_call> in the normalized text, </tool_call> included,
\* without its leading and trailing whitespace.
C33_Amended ==
  (Parsed /\ BlankCall(_normalize_xmlish_tags(content))) =>
    /\ parsed.action # <<>>
    /\ Contains(parsed.action, S_tool_close)
    /\ parsed.action = Strip(AfterTag(_normalize_xmlish_tags(content), S_tool_open))

\* C33's case: a blank between the tool_call tags.
C33_Witness ==
  /\ Parsed
  /\ form.kind = "tagged" /\ form.T = <<"a">> /\ form.A = <<" ">>
  /\ parsed.action = S_tool_close

\* What the text delivered shows before its earliest marker, or in all when it
\* has none: its characters outside markup that are no whitespace.
PreMarkerShown ==
  ShownUpTo(Delivered,
            IF FirstMarker(Delivered) = -1 THEN Len(Delivered) ELSE FirstMarker(Delivered))

\* C34: when request() has returned, the preview holds every character the
\* stream has before its marker outside markup and whitespace, also when the
\* stream ended with text held back.
C34_HeldTextEmitted ==
  rq = "returned" => IsPrefix(PreMarkerShown, RemoveWhitespace(Join(emitted)))

\* C35: a non-empty context starts with the one system turn; after it user and
\* assistant turns alternate, a user turn first.
C35_ContextShape ==
  \A i \in 1..Len(context) :
    context[i].role = IF i = 1 THEN "system" ELSE IF i % 2 = 0 THEN "user" ELSE "assistant"

\* C36: whenever the context is empty the retry state is cleared, and the user
\* turn a step builds on an empty context carries no retry note.
C36_FirstTurnWithoutNote ==
  /\ [](context = <<>> => (retry_count = 0 /\ last_action_type = None))
  /\ [][(BuiltUserTurn /\ context = <<>>) =>
          (context'[2].role = "user" /\ ~StartsWithNote(context'[2].text))]_vars

\* C36's case: a run has built its first user turn and recorded an action.
C36_Witness ==
  /\ op = "run_first"
  /\ Len(context) = 3
  /\ context[2].role = "user"
  /\ ~StartsWithNote(context[2].text)
  /\ retry_count = 1

\* The user turns of a context.
UserTurns(ctx) == Cardinality({ i \in 1..Len(ctx) : ctx[i].role = "user" })

\* C37: the step counter equals the number of user turns in the context.
C37_CounterIsUserTurns == step_count = UserTurns(context)

\* C38: no two threads are in run_agent at once, and the agent is not rebuilt
\* while one is.
C38_OneRunAtATime ==
  /\ [](workers <= 1)
  /\ [][builds' # builds => workers = 0]_vars

====
